---- MODULE Spec2Model ----
(***************************************************************************)
(* A model of rayz: a ray marcher over signed distance fields              *)
(* (src/src/sdf.rs) and its frame loop (src/src/main.rs).                  *)
(*                                                                         *)
(* Numbers.  The program computes in f32.  The model computes in fixed     *)
(* point: a number is an integer count of units of EPSILON (0.0001), so    *)
(* 1.0 is ONE units.  Products are rescaled by ONE, quotients and square   *)
(* roots are rounded, and sums saturate at FMAX, as f32 sums saturate at   *)
(* infinity.  NaN and the rounding of f32 are not represented there.       *)
(*                                                                         *)
(* The camera is the exception.  Its coordinates are kept as the f32       *)
(* values the program holds, each an integer count of units of 2^-27 (the  *)
(* step of f32 at 0.1), and check_movement adds with the rounding of f32.  *)
(* draw reads the camera into fixed point.                                 *)
(***************************************************************************)
EXTENDS Integers, Sequences, FiniteSets

(***************************************************************************)
(* Program constants, in units of EPSILON.                                 *)
(***************************************************************************)
MAX_MARCHING_STEPS == 100
EPSILON == 1
ONE == 10000 * EPSILON
NORMAL_EPSILON == 5 * EPSILON

\* 1.0 of a camera coordinate, in units of 2^-27
F32_ONE == 2 ^ 27
\* the f32 literal 0.1, which is 13421773 * 2^-27
TENTH == 13421773

(***************************************************************************)
(* Bounds of the model.                                                    *)
(***************************************************************************)
\* largest magnitude a marching depth takes; sums saturate there
FMAX == 200000
\* ray origins of the marching harness lie on the lattice -MaxCoord..MaxCoord
MaxCoord == 2
\* the side of the rendered grid, in pixels (300 in the program)
RENDER_VIEWPORT == 2
\* the camera is followed this many moves of 0.1 away from where main puts it
MaxMove == 1

(***************************************************************************)
(* Scalars.                                                                *)
(***************************************************************************)
Abs(a) == IF a < 0 THEN -a ELSE a
Max2(a, b) == IF a >= b THEN a ELSE b
Min2(a, b) == IF a <= b THEN a ELSE b

\* division rounding toward zero, b > 0
DivT(a, b) == IF a >= 0 THEN a \div b ELSE -((-a) \div b)

\* fixed point product
Mul(a, b) == DivT(a * b, ONE)

RECURSIVE Newton(_, _)
\* Newton's iteration for the integer square root, from a guess x that is
\* not below it
Newton(n, x) ==
    IF n = 0 THEN 0
    ELSE IF (x + n \div x) \div 2 >= x THEN x
    ELSE Newton(n, (x + n \div x) \div 2)

\* square root of an integer, rounded to nearest
ISqrt(n) ==
    LET x0 == IF n < 256 THEN 16
              ELSE IF n < 65536 THEN 256
              ELSE IF n < 1048576 THEN 1024
              ELSE IF n < 16777216 THEN 4096
              ELSE IF n < 268435456 THEN 16384
              ELSE 46341
        r == Newton(n, x0)
    IN  IF n - r * r > r THEN r + 1 ELSE r

\* a sum that saturates at FMAX
SatAdd(a, b) == Max2(-FMAX, Min2(FMAX, a + b))

\* x to the power n, n a natural number, by repeated squaring
RECURSIVE powf(_, _)
powf(x, n) ==
    IF n = 0 THEN ONE
    ELSE IF n % 2 = 0 THEN Mul(powf(x, n \div 2), powf(x, n \div 2))
    ELSE Mul(x, powf(x, n - 1))

\* the f32 nearest to m >= 0 units of 2^-27: 24 significant bits, ties to
\* even; k is the step of the binade tried
RECURSIVE round_f32(_, _)
round_f32(m, k) ==
    IF m \div k < 2 ^ 24
    THEN IF 2 * (m % k) > k \/ (2 * (m % k) = k /\ (m \div k) % 2 = 1)
         THEN ((m \div k) + 1) * k
         ELSE (m \div k) * k
    ELSE round_f32(m, 2 * k)

\* f32 addition (+= and -= on a camera coordinate)
add_f32(a, b) == IF a + b < 0 THEN -round_f32(-(a + b), 1) ELSE round_f32(a + b, 1)

\* a camera coordinate read into fixed point: v * ONE / 2^27, to nearest
in_fixed(v) ==
    LET m == Abs(v)
        t == (m \div (2 ^ 14)) * ONE + ((m % (2 ^ 14)) * ONE) \div (2 ^ 14)
        r == (t + 2 ^ 12) \div (2 ^ 13)
    IN  IF v < 0 THEN -r ELSE r

(***************************************************************************)
(* Vector3 (raylib::math::Vector3).                                        *)
(***************************************************************************)
V3(a, b, c) == [x |-> a, y |-> b, z |-> c]
Zero3 == V3(0, 0, 0)
VAdd(u, v) == V3(u.x + v.x, u.y + v.y, u.z + v.z)
VSub(u, v) == V3(u.x - v.x, u.y - v.y, u.z - v.z)
VSubScalar(u, s) == V3(u.x - s, u.y - s, u.z - s)
VScale(u, s) == V3(Mul(u.x, s), Mul(u.y, s), Mul(u.z, s))
VTimes(u, k) == V3(u.x * k, u.y * k, u.z * k)
VMulV(u, v) == V3(Mul(u.x, v.x), Mul(u.y, v.y), Mul(u.z, v.z))
VMax(u, v) == V3(Max2(u.x, v.x), Max2(u.y, v.y), Max2(u.z, v.z))
Dot(u, v) == Mul(u.x, v.x) + Mul(u.y, v.y) + Mul(u.z, v.z)
Cross(u, v) ==
    V3(Mul(u.y, v.z) - Mul(u.z, v.y),
       Mul(u.z, v.x) - Mul(u.x, v.z),
       Mul(u.x, v.y) - Mul(u.y, v.x))

Length(v) ==
    LET m == Max2(Abs(v.x), Max2(Abs(v.y), Abs(v.z)))
        \* long vectors are scaled down before squaring, then scaled back
        k == (m \div 26000) + 1
        a == Abs(v.x) \div k
        b == Abs(v.y) \div k
        c == Abs(v.z) \div k
    IN  k * ISqrt(a * a + b * b + c * c)

\* Vector3::normalized: a zero length is replaced by 1 before dividing
Normalized(v) ==
    LET l0 == Length(v)
        len == IF l0 = 0 THEN ONE ELSE l0
    IN  V3(DivT(v.x * ONE, len), DivT(v.y * ONE, len), DivT(v.z * ONE, len))

Clamp1(a, lo, hi) == IF a < lo THEN lo ELSE IF a > hi THEN hi ELSE a
\* Vector3::clamp(lo..hi)
VClamp(v, lo, hi) == V3(Clamp1(v.x, lo, hi), Clamp1(v.y, lo, hi), Clamp1(v.z, lo, hi))

(***************************************************************************)
(* Shapes (sdf.rs).                                                        *)
(***************************************************************************)
Sphere(i, c, r) == [kind |-> "Sphere", id |-> i, center |-> c, size |-> r]
Cube(i, c, l) == [kind |-> "Cube", id |-> i, center |-> c, size |-> l]

absolute(v) == V3(Abs(v.x), Abs(v.y), Abs(v.z))

sphere_sdf(s, v) == Length(VSub(v, s.center)) - s.size

cube_sdf(s, p) ==
    LET q == VSubScalar(absolute(VSub(p, s.center)), s.size)
    IN  Length(VMax(q, Zero3)) + Min2(Max2(Max2(q.y, q.z), q.x), 0)

sdf(s, v) == IF s.kind = "Sphere" THEN sphere_sdf(s, v) ELSE cube_sdf(s, v)

\* Sdf::dist: the distance paired with the id of the shape
dist(s, v) == <<sdf(s, v), s.id>>

(***************************************************************************)
(* Option.                                                                 *)
(***************************************************************************)
None == [some |-> FALSE]
Some(v) == [some |-> TRUE, val |-> v]

\* the element of a singleton; used to name a value that is computed once
Only(S) == CHOOSE r \in S : TRUE

(***************************************************************************)
(* Scene (sdf.rs): a HashMap from id to shape.  The map is the function    *)
(* objects; the order in which HashMap::values visits it is the sequence   *)
(* order, which the program does not choose.                               *)
(***************************************************************************)
\* Scene::new: insert every shape under its id, a later one replacing an
\* earlier one of the same id
Scene_new(objs) ==
    LET ids == {objs[i].id : i \in DOMAIN objs}
        last(k) == CHOOSE i \in DOMAIN objs :
                      /\ objs[i].id = k
                      /\ \A j \in DOMAIN objs : objs[j].id = k => j <= i
    IN  [k \in ids |-> objs[last(k)]]

\* the orders HashMap::values may visit the map in
Orders(objects) ==
    LET n == Cardinality(DOMAIN objects)
    IN  {s \in [1..n -> DOMAIN objects] : \A i, j \in 1..n : s[i] = s[j] => i = j}

\* Scene::get_object: the unwrap fails on an id that is no key
get_object(objects, id) ==
    IF id \in DOMAIN objects THEN Some(objects[id]) ELSE None

\* f32::partial_cmp on two numbers
partial_cmp(a, b) == IF a < b THEN "Less" ELSE IF a > b THEN "Greater" ELSE "Equal"

\* a comparator on the ids instead of the distances
compare_by_id(a, b) == partial_cmp(a[2], b[2])

\* the comparator of ray_march: a.0.partial_cmp(&b.0).unwrap_or(Less)
compare(a, b) == partial_cmp(a[1], b[1])

\* Iterator::min_by: fold from the first element, taking the next one only
\* when the kept one compares Greater
RECURSIVE min_by_from(_, _, _)
min_by_from(s, i, acc) ==
    IF i > Len(s) THEN acc
    ELSE min_by_from(s, i + 1, IF compare(acc, s[i]) = "Greater" THEN s[i] ELSE acc)

\* a reduction that answers (0, id 0) for no shape at all
min_by_or_default(s) == IF Len(s) = 0 THEN Some(<<0, 0>>) ELSE Some(min_by_from(s, 2, s[1]))

min_by(s) == IF Len(s) = 0 THEN None ELSE Some(min_by_from(s, 2, s[1]))

\* self.objects.values().map(|obj| obj.dist(point)).min_by(..)
nearest(objects, order, point) ==
    min_by([i \in 1..Len(order) |-> dist(objects[order[i]], point)])

\* let point = pos + ray * depth
march_point(pos, ray, depth) == VAdd(pos, VScale(ray, depth))

\* a loop over 0..=MAX_MARCHING_STEPS
loop_continues_inclusive(i) == i <= MAX_MARCHING_STEPS

\* for _ in 0..MAX_MARCHING_STEPS: iteration i runs
loop_continues(i) == i < MAX_MARCHING_STEPS

\* a hit test that takes no negative distance
is_hit_nonneg(d) == 0 <= d /\ d <= EPSILON

\* if dist <= EPSILON
is_hit(d) == d <= EPSILON

\* one sample of the loop: the point at the current depth and the nearest
\* (distance, id) there
march_sample(objects, order, pos, ray, depth) ==
    LET point == march_point(pos, ray, depth)
    IN  [point |-> point, near |-> nearest(objects, order, point)]

\* the body of the loop of ray_march after the sample s, on the loop state
\* st: the depth, and whether and what the loop has returned
march_after(st, s) ==
    IF ~s.near.some THEN [depth |-> st.depth, done |-> TRUE, ret |-> None]
    ELSE IF is_hit(s.near.val[1])
         THEN [depth |-> st.depth, done |-> TRUE,
               ret |-> Some([point |-> s.point, id |-> s.near.val[2]])]
         ELSE [depth |-> SatAdd(st.depth, s.near.val[1]), done |-> FALSE, ret |-> None]

\* one iteration of the loop
march_iter(objects, order, pos, ray, st) ==
    IF st.done THEN st
    ELSE Only({march_after(st, s) : s \in {march_sample(objects, order, pos, ray, st.depth)}})

\* n iterations of the loop, or fewer when it returns.  They are done as two
\* halves to keep the evaluation shallow; when the first half leaves the loop
\* state as it was (the depth has saturated), so does every later iteration,
\* and the second half is not evaluated.
RECURSIVE march_loop(_, _, _, _, _, _)
march_loop(objects, order, pos, ray, st, n) ==
    IF st.done \/ n = 0 THEN st
    ELSE IF n = 1 THEN march_iter(objects, order, pos, ray, st)
    ELSE Only({IF mid = st THEN st
               ELSE march_loop(objects, order, pos, ray, mid, n - (n \div 2)) :
                 mid \in {march_loop(objects, order, pos, ray, st, n \div 2)}})

\* Scene::ray_march: MAX_MARCHING_STEPS iterations, then None
ray_march(objects, order, pos, ray) ==
    march_loop(objects, order, pos, ray,
               [depth |-> 0, done |-> FALSE, ret |-> None], MAX_MARCHING_STEPS).ret

(***************************************************************************)
(* main (main.rs): the camera, the shapes and the lights it builds.        *)
(***************************************************************************)
MainCamera ==
    [eye |-> V3(0, 0, -2 * F32_ONE), target |-> V3(0, 0, 0), up |-> V3(0, -F32_ONE, 0)]

MainShapes ==
    <<Cube(1, V3(-2 * ONE, 0, 0), ONE), Sphere(0, V3(0, 0, 0), ONE)>>

MainLight ==
    [pos |-> V3(5 * ONE, 5 * ONE, 5 * ONE),
     specular |-> V3(ONE, ONE, ONE),
     diffuse |-> V3(ONE, (4 * ONE) \div 10, (2 * ONE) \div 10)]

MainLighting ==
    [ia |-> ONE \div 10, alpha |-> 32, light_sources |-> <<MainLight>>]

(***************************************************************************)
(* Shading (main.rs).                                                      *)
(***************************************************************************)
\* a normal from forward differences only
surface_normal_forward(object, point) ==
    Normalized(V3(sdf(object, V3(point.x + NORMAL_EPSILON, point.y, point.z)) - sdf(object, point),
                  sdf(object, V3(point.x, point.y + NORMAL_EPSILON, point.z)) - sdf(object, point),
                  sdf(object, V3(point.x, point.y, point.z + NORMAL_EPSILON)) - sdf(object, point)))

\* Sdf::surface_normal: central differences of the shape's own sdf
surface_normal(object, point) ==
    LET x == point.x
        y == point.y
        z == point.z
        dx == sdf(object, V3(x + NORMAL_EPSILON, y, z)) - sdf(object, V3(x - NORMAL_EPSILON, y, z))
        dy == sdf(object, V3(x, y + NORMAL_EPSILON, z)) - sdf(object, V3(x, y - NORMAL_EPSILON, z))
        dz == sdf(object, V3(x, y, z + NORMAL_EPSILON)) - sdf(object, V3(x, y, z - NORMAL_EPSILON))
    IN  Normalized(V3(dx, dy, dz))

\* the body of the loop over the light sources: what one light adds to ip
light_term(ia, alpha, ls, n, v, p) ==
    LET l == Normalized(VSub(ls.pos, p))
        r == Normalized(VSub(VTimes(VScale(n, Dot(l, n)), 2), l))
        diffuse_f == Max2(Dot(l, n), 0)
        specular_f == powf(Max2(Dot(v, r), 0), alpha)
    IN  VAdd(VScale(ls.diffuse, diffuse_f + ia), VScale(ls.specular, specular_f))

RECURSIVE light_sum(_, _, _, _, _)
\* ip after the first k light sources
light_sum(lights, k, n, v, p) ==
    IF k = 0 THEN Zero3
    ELSE VAdd(light_sum(lights, k - 1, n, v, p),
              light_term(lights.ia, lights.alpha, lights.light_sources[k], n, v, p))

\* ip before the clamp, for a surface normal n
shade(lights, cam, p, n) ==
    LET v == Normalized(VSub(cam.eye, p))
    IN  VTimes(light_sum(lights, Len(lights.light_sources), n, v, p), 255)

\* illuminate without its clamp
illuminate_unclamped(lights, cam, p, object) ==
    shade(lights, cam, p, surface_normal(object, p))

\* Lighting::illuminate
illuminate(lights, cam, p, object) ==
    VClamp(shade(lights, cam, p, surface_normal(object, p)), 0, 255 * ONE)

\* the assertions of v3_into_color
v3_into_color_ok(v) ==
    /\ v.x >= 0 /\ v.y >= 0 /\ v.z >= 0
    /\ v.x <= 255 * ONE /\ v.y <= 255 * ONE /\ v.z <= 255 * ONE

(***************************************************************************)
(* draw (main.rs): the ray of a pixel and the task of a pixel.             *)
(***************************************************************************)
\* the camera as draw computes with it
V3_in_fixed(v) == V3(in_fixed(v.x), in_fixed(v.y), in_fixed(v.z))

camera_in_fixed(cam) ==
    [eye |-> V3_in_fixed(cam.eye), target |-> V3_in_fixed(cam.target),
     up |-> V3_in_fixed(cam.up)]

\* the pixels, in the order draw pushes them
pixels ==
    [i \in 1..(RENDER_VIEWPORT * RENDER_VIEWPORT) |->
        [x |-> (i - 1) \div RENDER_VIEWPORT, y |-> (i - 1) % RENDER_VIEWPORT]]

\* tan of half the field of view; main passes 90 degrees
scale == ONE

\* draw, before the pixels are mapped: the basis of the view
view_basis(cam) ==
    Only({[forward |-> forward,
           right |-> Normalized(Cross(forward, cam.up)),
           true_up |-> Cross(Normalized(Cross(forward, cam.up)), forward)] :
            forward \in {Normalized(VSub(cam.target, cam.eye))}})

\* the ray of pixel (x, y)
pixel_ray(view, x, y) ==
    LET ratio == DivT(RENDER_VIEWPORT * ONE, RENDER_VIEWPORT)
        x_normalized == DivT((2 * x + 1) * ONE, RENDER_VIEWPORT) - ONE
        y_normalized == DivT((2 * y + 1) * ONE, RENDER_VIEWPORT) - ONE
        pcs == V3(Mul(Mul(x_normalized, ratio), scale), Mul(y_normalized, scale), ONE)
    IN  Normalized(VAdd(VAdd(VScale(view.right, pcs.x), VScale(view.true_up, pcs.y)),
                        VScale(view.forward, pcs.z)))

\* the closure draw maps over the pixels, from the hit ray_march returned:
\* whether get_object found the id, and the Option the closure returns
pixel_result(objs, lights, cam, px, hit) ==
    IF ~hit.some
    THEN [hit |-> hit, found |-> TRUE, out |-> None]
    ELSE IF ~get_object(objs, hit.val.id).some
         THEN [hit |-> hit, found |-> FALSE, out |-> None]
         ELSE [hit |-> hit, found |-> TRUE,
               out |-> Some([x |-> px.x, y |-> px.y,
                             color |-> illuminate(lights, cam, hit.val.point,
                                                  get_object(objs, hit.val.id).val)])]

pixel_task(objs, ord, lights, cam, view, px) ==
    Only({pixel_result(objs, lights, cam, px, hit) :
            hit \in {ray_march(objs, ord, cam.eye, pixel_ray(view, px.x, px.y))}})

RECURSIVE flatten_from(_, _)
\* .flatten().collect(): the Some values of the first k results, in order
flatten_from(res, k) ==
    IF k = 0 THEN <<>>
    ELSE IF res[k].out.some
         THEN Append(flatten_from(res, k - 1), res[k].out.val)
         ELSE flatten_from(res, k - 1)

\* a collect that loses the result of the first pixel
collect_but_first(res) ==
    flatten_from([i \in 1..(Len(res) - 1) |-> res[i + 1]], Len(res) - 1)

collect(res) == flatten_from(res, Len(res))

(***************************************************************************)
(* check_movement (main.rs).                                               *)
(***************************************************************************)
Keys == {"W", "S", "A", "D", "SPACE", "C", "Q", "E"}

\* a movement in which Space lifts the target with the eye
moved_with_target(cam, ks) ==
    LET c1 == IF "W" \in ks
              THEN [cam EXCEPT !.eye.z = add_f32(@, TENTH), !.target.z = add_f32(@, TENTH)]
              ELSE cam
        c2 == IF "S" \in ks
              THEN [c1 EXCEPT !.eye.z = add_f32(@, -TENTH), !.target.z = add_f32(@, -TENTH)]
              ELSE c1
        c3 == IF "A" \in ks
              THEN [c2 EXCEPT !.eye.x = add_f32(@, -TENTH), !.target.x = add_f32(@, -TENTH)]
              ELSE c2
        c4 == IF "D" \in ks
              THEN [c3 EXCEPT !.eye.x = add_f32(@, TENTH), !.target.x = add_f32(@, TENTH)]
              ELSE c3
        c5 == IF "SPACE" \in ks
              THEN [c4 EXCEPT !.eye.y = add_f32(@, TENTH), !.target.y = add_f32(@, TENTH)]
              ELSE c4
        c6 == IF "C" \in ks THEN [c5 EXCEPT !.eye.y = add_f32(@, -TENTH)] ELSE c5
    IN  c6

\* the camera after check_movement, with the keys ks down
moved(cam, ks) ==
    LET c1 == IF "W" \in ks
              THEN [cam EXCEPT !.eye.z = add_f32(@, TENTH), !.target.z = add_f32(@, TENTH)]
              ELSE cam
        c2 == IF "S" \in ks
              THEN [c1 EXCEPT !.eye.z = add_f32(@, -TENTH), !.target.z = add_f32(@, -TENTH)]
              ELSE c1
        c3 == IF "A" \in ks
              THEN [c2 EXCEPT !.eye.x = add_f32(@, -TENTH), !.target.x = add_f32(@, -TENTH)]
              ELSE c2
        c4 == IF "D" \in ks
              THEN [c3 EXCEPT !.eye.x = add_f32(@, TENTH), !.target.x = add_f32(@, TENTH)]
              ELSE c3
        c5 == IF "SPACE" \in ks THEN [c4 EXCEPT !.eye.y = add_f32(@, TENTH)] ELSE c4
        c6 == IF "C" \in ks THEN [c5 EXCEPT !.eye.y = add_f32(@, -TENTH)] ELSE c5
    IN  c6

\* how many moves the eye is away from where main puts it, to nearest
Moves(cam) ==
    (Abs(cam.eye.x - MainCamera.eye.x) + Abs(cam.eye.y - MainCamera.eye.y)
       + Abs(cam.eye.z - MainCamera.eye.z) + TENTH \div 2) \div TENTH

(***************************************************************************)
(* State.                                                                  *)
(***************************************************************************)
VARIABLES
    objects,    \* Scene.objects: id -> shape
    order,      \* the order HashMap::values visits objects in
    lighting,   \* the Lighting of main
    camera,     \* the Camera of main
    pc,         \* where the main loop is
    keys,       \* the keys check_movement found down in this frame
    basis,      \* draw: forward, right and true_up
    results,    \* draw: pixel -> what its task produced
    to_draw,    \* draw: the collected vector
    march       \* one call of ray_march, run one loop iteration at a time

vars == <<objects, order, lighting, camera, pc, keys, basis, results, to_draw, march>>

frame_vars == <<lighting, camera, pc, keys, basis, results, to_draw>>

(***************************************************************************)
(* ray_march, one loop iteration per step, on scenes, origins and          *)
(* directions drawn from small sets.                                       *)
(***************************************************************************)
\* two spheres of radius 1.5 that overlap; the plane x = 0 is at the same
\* distance from both
TwinShapes ==
    <<Sphere(0, V3(-ONE, 0, 0), (3 * ONE) \div 2),
      Sphere(1, V3(ONE, 0, 0), (3 * ONE) \div 2)>>

\* two shapes built with the same id
SameIdShapes ==
    <<Sphere(0, V3(0, 0, 0), ONE), Cube(0, V3(ONE, 0, 0), ONE \div 2)>>

MarchScenes == {<<>>, MainShapes, TwinShapes, SameIdShapes}

Origins ==
    {V3(i * ONE, 0, k * ONE) : i \in -MaxCoord..MaxCoord, k \in -MaxCoord..MaxCoord}

Directions ==
    {V3(ONE, 0, 0), V3(-ONE, 0, 0), V3(0, ONE, 0), V3(0, -ONE, 0),
     V3(0, 0, ONE), V3(0, 0, -ONE),
     Normalized(V3(ONE, 0, ONE)), Normalized(V3(-ONE, ONE, -ONE))}

NoBasis == [forward |-> Zero3, right |-> Zero3, true_up |-> Zero3]

InitMarch ==
    /\ objects \in {Scene_new(s) : s \in MarchScenes}
    /\ order \in Orders(objects)
    /\ march \in {[pos |-> o, ray |-> d, depth |-> 0, i |-> 0, pc |-> "loop",
                    ret |-> None, hist |-> <<>>] : o \in Origins, d \in Directions}
    /\ lighting = MainLighting
    /\ camera = MainCamera
    /\ pc = "idle"
    /\ keys = {}
    /\ basis = NoBasis
    /\ results = <<>>
    /\ to_draw = <<>>

Sample == march_sample(objects, order, march.pos, march.ray, march.depth)

Record(s) == Append(march.hist, [point |-> s.point, dist |-> s.near.val[1], id |-> s.near.val[2]])

\* the scene has no shape: None => return None
march_empty ==
    /\ march.pc = "loop"
    /\ loop_continues(march.i)
    /\ ~Sample.near.some
    /\ march' = [march EXCEPT !.pc = "done", !.ret = None]
    /\ UNCHANGED <<objects, order, frame_vars>>

\* dist <= EPSILON: return Some((point, obj))
march_hit ==
    /\ march.pc = "loop"
    /\ loop_continues(march.i)
    /\ Sample.near.some
    /\ is_hit(Sample.near.val[1])
    /\ march' = [march EXCEPT !.pc = "done",
                              !.ret = Some([point |-> Sample.point, id |-> Sample.near.val[2]]),
                              !.hist = Record(Sample)]
    /\ UNCHANGED <<objects, order, frame_vars>>

\* depth += dist
march_advance ==
    /\ march.pc = "loop"
    /\ loop_continues(march.i)
    /\ Sample.near.some
    /\ ~is_hit(Sample.near.val[1])
    /\ march' = [march EXCEPT !.depth = SatAdd(march.depth, Sample.near.val[1]),
                              !.i = march.i + 1,
                              !.hist = Record(Sample)]
    /\ UNCHANGED <<objects, order, frame_vars>>

\* the loop ran out: None
march_exhausted ==
    /\ march.pc = "loop"
    /\ ~loop_continues(march.i)
    /\ march' = [march EXCEPT !.pc = "done", !.ret = None]
    /\ UNCHANGED <<objects, order, frame_vars>>

NextMarch == march_empty \/ march_hit \/ march_advance \/ march_exhausted

SpecMarch == InitMarch /\ [][NextMarch]_vars

(***************************************************************************)
(* The main loop: check_movement, then draw, whose pixel tasks run in any  *)
(* order and are collected when all are done.                              *)
(***************************************************************************)
\* two overlapping spheres placed so that the rays of the pixels on the
\* diagonal of the grid run in the plane at the same distance from both
CreaseShapes ==
    <<Sphere(0, V3(ONE \div 2, -(ONE \div 2), 0), (3 * ONE) \div 2),
      Sphere(1, V3(-(ONE \div 2), ONE \div 2, 0), (3 * ONE) \div 2)>>

SecondLight ==
    [pos |-> V3(-5 * ONE, 5 * ONE, -5 * ONE),
     specular |-> V3(ONE, ONE, ONE),
     diffuse |-> V3(-(ONE \div 2), (4 * ONE) \div 10, 3 * ONE)]

TwoLights ==
    [ia |-> ONE \div 10, alpha |-> 32, light_sources |-> <<MainLight, SecondLight>>]

NoLights == [ia |-> ONE \div 10, alpha |-> 32, light_sources |-> <<>>]

MarchIdle == [pc |-> "idle"]

\* what main builds; the order of the HashMap is not main's choice
Init ==
    /\ objects = Scene_new(MainShapes)
    /\ order \in Orders(objects)
    /\ lighting = MainLighting
    /\ camera = MainCamera
    /\ pc = "input"
    /\ keys = {}
    /\ basis = NoBasis
    /\ results = <<>>
    /\ to_draw = <<>>
    /\ march = MarchIdle

\* the same loop on two spheres that overlap, under two lights
InitScenes ==
    /\ objects = Scene_new(CreaseShapes)
    /\ order \in Orders(objects)
    /\ lighting = TwoLights
    /\ camera = MainCamera
    /\ pc = "input"
    /\ keys = {}
    /\ basis = NoBasis
    /\ results = <<>>
    /\ to_draw = <<>>
    /\ march = MarchIdle

\* the same loop on a scene without shapes, Scene::new(vec![])
InitEmpty ==
    /\ objects = Scene_new(<<>>)
    /\ order \in Orders(objects)
    /\ lighting = NoLights
    /\ camera = MainCamera
    /\ pc = "input"
    /\ keys = {}
    /\ basis = NoBasis
    /\ results = <<>>
    /\ to_draw = <<>>
    /\ march = MarchIdle

\* a check_movement that may also run while the pixel tasks do
check_movement_late(ks) ==
    /\ pc \in {"input", "render"}
    /\ Moves(moved(camera, ks)) <= MaxMove
    /\ camera' = moved(camera, ks)
    /\ keys' = ks
    /\ pc' = IF pc = "input" THEN "draw" ELSE pc
    /\ UNCHANGED <<objects, order, lighting, basis, results, to_draw, march>>

\* check_movement: one call, with the set ks of keys down
check_movement(ks) ==
    /\ pc = "input"
    /\ Moves(moved(camera, ks)) <= MaxMove
    /\ camera' = moved(camera, ks)
    /\ keys' = ks
    /\ pc' = "draw"
    /\ UNCHANGED <<objects, order, lighting, basis, results, to_draw, march>>

\* draw, up to par_iter: the basis of the view, and one pending task per pixel
draw_fan_out ==
    /\ pc = "draw"
    /\ basis' = view_basis(camera_in_fixed(camera))
    /\ results' = [i \in DOMAIN pixels |-> [done |-> FALSE]]
    /\ keys' = {}
    /\ pc' = "render"
    /\ UNCHANGED <<objects, order, lighting, camera, to_draw, march>>

\* the task of pixel i runs; a failed unwrap in get_object stops the program
run_pixel(i) ==
    /\ pc = "render"
    /\ ~results[i].done
    /\ \E t \in {pixel_task(objects, order, lighting, camera_in_fixed(camera), basis,
                            pixels[i])} :
          /\ results' = [results EXCEPT ![i] =
                            [done |-> TRUE, cam |-> camera, hit |-> t.hit, out |-> t.out]]
          /\ pc' = IF t.found THEN pc ELSE "panicked"
    /\ UNCHANGED <<objects, order, lighting, camera, keys, basis, to_draw, march>>

\* all tasks are done: collect
draw_collect ==
    /\ pc = "render"
    /\ \A i \in DOMAIN results : results[i].done
    /\ to_draw' = collect(results)
    /\ pc' = "present"
    /\ UNCHANGED <<objects, order, lighting, camera, keys, basis, results, march>>

\* draw, the loop over to_draw: v3_into_color asserts on every color
draw_present ==
    /\ pc = "present"
    /\ pc' = IF \A k \in DOMAIN to_draw : v3_into_color_ok(to_draw[k].color)
             THEN "input" ELSE "panicked"
    /\ to_draw' = <<>>
    /\ results' = <<>>
    /\ basis' = NoBasis
    /\ UNCHANGED <<objects, order, lighting, camera, keys, march>>

\* window_should_close: the loop ends
window_close ==
    /\ pc = "input"
    /\ pc' = "closed"
    /\ UNCHANGED <<objects, order, lighting, camera, keys, basis, results, to_draw, march>>

Next ==
    \/ \E ks \in SUBSET Keys : check_movement(ks)
    \/ draw_fan_out
    \/ \E i \in DOMAIN pixels : run_pixel(i)
    \/ draw_collect
    \/ draw_present
    \/ window_close

Spec == Init /\ [][Next]_vars

SpecScenes == InitScenes /\ [][Next]_vars

SpecEmpty == InitEmpty /\ [][Next]_vars

(***************************************************************************)
(* Claims about ray_march, checked under SpecMarch.                        *)
(***************************************************************************)
Last(h) == h[Len(h)]

RECURSIVE SumDist(_, _)
\* the sum of the distances of the first n samples
SumDist(h, n) == IF n = 0 THEN 0 ELSE SumDist(h, n - 1) + h[n].dist

\* some shape of the scene holds the point strictly inside
Inside(point) == \E k \in DOMAIN objects : sdf(objects[k], point) < 0

\* the distances of all shapes of the scene at a point
AllDist(point) == {sdf(objects[k], point) : k \in DOMAIN objects}

\* C1: ray_march returns a hit exactly at the first sample whose nearest
\* distance is <= EPSILON: no earlier sample is that close, the point returned
\* is origin + direction * (sum of the earlier distances), the id is that of
\* a nearest shape there; and an origin strictly inside a shape is hit at
\* the origin itself, on the first sample.
C1_HitAtFirstCloseSample ==
    LET h == march.hist
        n == Len(h)
    IN  /\ \A j \in 1..(n - 1) : h[j].dist > EPSILON
        /\ (n > 0 /\ Last(h).dist <= EPSILON) =>
              /\ march.pc = "done"
              /\ march.ret = Some([point |-> Last(h).point, id |-> Last(h).id])
        /\ (march.pc = "done" /\ march.ret.some) =>
              /\ n > 0
              /\ Last(h).dist <= EPSILON
              /\ march.ret.val.point =
                    VAdd(march.pos, VScale(march.ray, SumDist(h, n - 1)))
              /\ Last(h).dist \in AllDist(march.ret.val.point)
              /\ \A d \in AllDist(march.ret.val.point) : Last(h).dist <= d
              /\ sdf(objects[march.ret.val.id], march.ret.val.point) = Last(h).dist
        /\ (march.pc = "done" /\ ~march.ret.some) =>
              \A j \in 1..n : h[j].dist > EPSILON
        /\ (march.pc = "done" /\ Inside(march.pos)) =>
              /\ march.ret.some
              /\ march.ret.val.point = march.pos
              /\ n = 1

\* a hit found after the ray has advanced
C1_Witness ==
    /\ march.pc = "done"
    /\ march.ret.some
    /\ Len(march.hist) >= 3
    /\ march.ret.val.point # march.pos

\* a hit at depth 0 from an origin strictly inside a shape
C1_WitnessInside ==
    /\ march.pc = "done"
    /\ Inside(march.pos)
    /\ march.ret.some

\* C2: ray_march ends after at most 100 samples (every iteration either
\* returns or uses up one of the 100), and returns None when 100 samples
\* were all farther than EPSILON.
C2_SampleBudget ==
    /\ Len(march.hist) <= 100
    /\ march.pc = "loop" => Len(march.hist) = march.i
    /\ (/\ march.pc = "done"
        /\ Len(march.hist) = 100
        /\ \A j \in 1..100 : march.hist[j].dist > EPSILON) => march.ret = None

C2_AtMostHundredSamples ==
    /\ []C2_SampleBudget
    /\ [][march.pc = "loop" =>
            \/ march'.pc = "done"
            \/ march'.i = march.i + 1 /\ march'.i <= 100]_vars

\* a march that gave up after 100 samples
C2_Witness ==
    /\ march.pc = "done"
    /\ ~march.ret.some
    /\ Len(march.hist) = 100
    /\ \A j \in 1..100 : march.hist[j].dist > EPSILON

C4_OwnerIndependentOfOrder ==
    march.pc = "done" =>
        \A o \in Orders(objects) : ray_march(objects, o, march.pos, march.ray) = march.ret

\* a march in which two shapes are equally near at the sample that hits, and
\* the other order of the same scene returns another id
C4_Witness ==
    /\ march.pc = "done"
    /\ march.ret.some
    /\ \E k \in DOMAIN objects :
          /\ k # march.ret.val.id
          /\ sdf(objects[k], march.ret.val.point) = Last(march.hist).dist
    /\ \E o \in Orders(objects) :
          ray_march(objects, o, march.pos, march.ray) # march.ret

(***************************************************************************)
(* Claims about the main loop, checked under Spec, SpecScenes and          *)
(* SpecEmpty.                                                              *)
(***************************************************************************)
\* the pixels whose task is done, and those among them whose ray hit
Done == {i \in DOMAIN results : results[i].done}
Hits == {i \in Done : results[i].hit.some}

HitPoint(i) == results[i].hit.val.point
HitShape(i) == objects[results[i].hit.val.id]

\* the nearest-surface distance of the scene: the minimum over its shapes
SceneField(point) ==
    CHOOSE d \in AllDist(point) : \A e \in AllDist(point) : d <= e

Offsets ==
    {V3(NORMAL_EPSILON, 0, 0), V3(-NORMAL_EPSILON, 0, 0),
     V3(0, NORMAL_EPSILON, 0), V3(0, -NORMAL_EPSILON, 0),
     V3(0, 0, NORMAL_EPSILON), V3(0, 0, -NORMAL_EPSILON)}

\* the normalized central-difference gradient of one shape's distance
ShapeGradient(s, p) ==
    Normalized(V3(sdf(s, VAdd(p, V3(NORMAL_EPSILON, 0, 0))) - sdf(s, VAdd(p, V3(-NORMAL_EPSILON, 0, 0))),
                  sdf(s, VAdd(p, V3(0, NORMAL_EPSILON, 0))) - sdf(s, VAdd(p, V3(0, -NORMAL_EPSILON, 0))),
                  sdf(s, VAdd(p, V3(0, 0, NORMAL_EPSILON))) - sdf(s, VAdd(p, V3(0, 0, -NORMAL_EPSILON)))))

\* the normalized central-difference gradient of the scene's distance
FieldGradient(p) ==
    Normalized(V3(SceneField(VAdd(p, V3(NORMAL_EPSILON, 0, 0))) - SceneField(VAdd(p, V3(-NORMAL_EPSILON, 0, 0))),
                  SceneField(VAdd(p, V3(0, NORMAL_EPSILON, 0))) - SceneField(VAdd(p, V3(0, -NORMAL_EPSILON, 0))),
                  SceneField(VAdd(p, V3(0, 0, NORMAL_EPSILON))) - SceneField(VAdd(p, V3(0, 0, -NORMAL_EPSILON)))))

\* the color of hit pixel i if it were shaded with the normal n
ColorWith(i, n) ==
    VClamp(shade(lighting, camera_in_fixed(results[i].cam), HitPoint(i), n), 0, 255 * ONE)

\* C5, as the specification states it: every hit pixel is shaded with the
\* gradient of the scene's combined distance field, and that gradient equals
\* the gradient of the distance of the shape that was hit.
C5_NormalOfSceneField ==
    \A i \in Hits :
        /\ results[i].out.some
        /\ results[i].out.val.color = ColorWith(i, FieldGradient(HitPoint(i)))
        /\ ShapeGradient(HitShape(i), HitPoint(i)) = FieldGradient(HitPoint(i))

\* C5, amended: every hit pixel is shaded with the normalized central-
\* difference gradient of the distance function of the shape that was hit;
\* it equals the gradient of the scene's combined field whenever the hit
\* shape is the nearest shape at all six offset positions.
C5_NormalOfHitShape ==
    \A i \in Hits :
        /\ results[i].out.some
        /\ results[i].out.val.color = ColorWith(i, ShapeGradient(HitShape(i), HitPoint(i)))
        /\ (\A o \in Offsets :
               sdf(HitShape(i), VAdd(HitPoint(i), o)) = SceneField(VAdd(HitPoint(i), o)))
              => ShapeGradient(HitShape(i), HitPoint(i)) = FieldGradient(HitPoint(i))

\* a hit pixel where another shape is nearer at an offset position, the two
\* gradients differ, and so does the color
C5_Witness ==
    \E i \in Hits :
        /\ \E o \in Offsets :
              sdf(HitShape(i), VAdd(HitPoint(i), o)) > SceneField(VAdd(HitPoint(i), o))
        /\ ShapeGradient(HitShape(i), HitPoint(i)) # FieldGradient(HitPoint(i))
        /\ results[i].out.val.color # ColorWith(i, FieldGradient(HitPoint(i)))

\* what the closure of draw returns for pixel i, from the frozen camera,
\* scene and lighting
RayOf(i) ==
    pixel_ray(view_basis(camera_in_fixed(camera)), pixels[i].x, pixels[i].y)

HitOf(i) == ray_march(objects, order, camera_in_fixed(camera).eye, RayOf(i))

EntriesAt(i) ==
    {k \in DOMAIN to_draw : to_draw[k].x = pixels[i].x /\ to_draw[k].y = pixels[i].y}

\* C6: when the tasks of a frame are joined, to_draw holds exactly one entry
\* for every pixel whose ray hits a shape, with the color of that hit, and no
\* entry for a pixel whose ray hits nothing; the entries are a function of
\* the camera, scene and lighting alone, whatever order the tasks ended in.
C6_OneEntryPerHitPixel ==
    pc = "present" =>
        /\ \A i \in DOMAIN pixels :
              /\ HitOf(i).some =>
                    /\ Cardinality(EntriesAt(i)) = 1
                    /\ \A k \in EntriesAt(i) :
                          to_draw[k].color =
                             illuminate(lighting, camera_in_fixed(camera), HitOf(i).val.point,
                                        objects[HitOf(i).val.id])
              /\ ~HitOf(i).some => EntriesAt(i) = {}
        /\ Len(to_draw) = Cardinality({i \in DOMAIN pixels : HitOf(i).some})
        /\ \A k \in DOMAIN to_draw : \E i \in DOMAIN pixels : k \in EntriesAt(i)

\* a joined frame with a pixel that hit and a pixel that did not
C6_Witness ==
    /\ pc = "present"
    /\ Len(to_draw) > 0
    /\ Len(to_draw) < Len(pixels)
    /\ results[1].out.some

\* no step but check_movement, from the input step to draw, changes the camera
C7_OnlyInputMoves == [][camera' # camera => pc = "input" /\ pc' = "draw"]_vars

\* while the pixel tasks run, camera, scene and lighting stay as they are
C7_FrozenInFanOut ==
    [][pc = "render" => UNCHANGED <<camera, objects, order, lighting>>]_vars

\* the fan-out starts only from the state check_movement left
C7_InputBeforeFanOut ==
    [][pc' = "render" /\ pc # "render" => pc = "draw" /\ camera' = camera]_vars

\* C7: the camera changes only in check_movement, which is done before the
\* fan-out starts; from the fan-out to the join camera, scene and lighting
\* do not change, and every pixel task has read the same camera.
C7_CameraFrozenInFrame ==
    /\ C7_OnlyInputMoves
    /\ C7_FrozenInFanOut
    /\ C7_InputBeforeFanOut
    /\ [](\A i \in Done : results[i].cam = camera)

\* two tasks are done and others are not, after the camera has moved
C7_Witness ==
    /\ pc = "render"
    /\ camera # MainCamera
    /\ Cardinality(Done) >= 2
    /\ Cardinality(Done) < Len(pixels)

\* one coordinate after the key that adds 0.1 and then the key that takes it
PlusThenMinus(v, plus, minus) ==
    LET a == IF plus THEN add_f32(v, TENTH) ELSE v
    IN  IF minus THEN add_f32(a, -TENTH) ELSE a

\* one coordinate after the key that takes 0.1 and then the key that adds it
MinusThenPlus(v, minus, plus) ==
    LET a == IF minus THEN add_f32(v, -TENTH) ELSE v
    IN  IF plus THEN add_f32(a, TENTH) ELSE a

\* the camera one call of check_movement makes of cam with the keys ks down
AfterKeys(cam, ks) ==
    [eye |-> V3(MinusThenPlus(cam.eye.x, "A" \in ks, "D" \in ks),
                PlusThenMinus(cam.eye.y, "SPACE" \in ks, "C" \in ks),
                PlusThenMinus(cam.eye.z, "W" \in ks, "S" \in ks)),
     target |-> V3(MinusThenPlus(cam.target.x, "A" \in ks, "D" \in ks),
                   cam.target.y,
                   PlusThenMinus(cam.target.z, "W" \in ks, "S" \in ks)),
     up |-> cam.up]

DriftZ(cam) ==
    (cam.eye.z - cam.target.z) - (MainCamera.eye.z - MainCamera.target.z)

InRange(v) ==
    /\ 0 <= v.x /\ v.x <= 255 * ONE
    /\ 0 <= v.y /\ v.y <= 255 * ONE
    /\ 0 <= v.z /\ v.z <= 255 * ONE

\* C9: every color a pixel task gets from illuminate, and every color handed
\* to the presentation loop, has its three channels in [0, 255], and no
\* assertion of v3_into_color fails.
C9_ColorsInRange ==
    /\ \A i \in Done : results[i].out.some => InRange(results[i].out.val.color)
    /\ \A k \in DOMAIN to_draw : InRange(to_draw[k].color)
    /\ pc # "panicked"

\* a presented color that the clamp cut at both ends: before the clamp one
\* channel was above 255 and another below 0
C9_Witness ==
    /\ pc = "present"
    /\ \E i \in Hits :
          LET raw == shade(lighting, camera_in_fixed(results[i].cam), HitPoint(i),
                           ShapeGradient(HitShape(i), HitPoint(i)))
          IN  /\ raw.x > 255 * ONE \/ raw.y > 255 * ONE \/ raw.z > 255 * ONE
              /\ raw.x < 0 \/ raw.y < 0 \/ raw.z < 0
              /\ results[i].out.some

\* C10: in a scene without shapes no pixel task finds a hit or returns an
\* entry, whatever the camera, so the joined frame is empty; and ray_march
\* returns None from every origin in every direction.
C10_EmptySceneNoEntries ==
    DOMAIN objects = {} =>
        /\ \A i \in Done : ~results[i].hit.some /\ ~results[i].out.some
        /\ to_draw = <<>>
        /\ pc # "panicked"
        /\ pc = "present" =>
              \A o \in Origins, d \in Directions :
                  ray_march(objects, order, o, d) = None

\* a frame of the empty scene is joined, after the camera has moved
C10_Witness ==
    /\ DOMAIN objects = {}
    /\ pc = "present"
    /\ camera # MainCamera
    /\ Cardinality(Done) = Len(pixels)

====
